---- MODULE Spec2Model ----
(***************************************************************************)
(* Model of tools/cruft-manager/cruft_manager.py: CruftManager.run_updates *)
(* and the per-repository pipeline it drives (workspace acquisition,       *)
(* check_for_updates, apply_update).  Every external command is one step;  *)
(* what the command returns is chosen by the environment.                  *)
(***************************************************************************)
EXTENDS Integers, Sequences, FiniteSets, TLC

VARIABLES
    repositories,   \* self.repositories: the list of Repository bindings
    dry_run,        \* the dry_run argument of run_updates
    idx,            \* position of the for loop of run_updates (1-based)
    pc,             \* the statement run_updates / apply_update is at
    result,         \* the local UpdateResult being built, or None
    results,        \* the local list `results` of run_updates
    cmds,           \* the calls of _run_command made for the binding in hand
    reads,          \* what check_for_updates read as .cruft.json, for that binding
    tmp_dirs,       \* the temporary directories that exist on disk
    raised,         \* the exception that left run_updates, or None
    local_exists,   \* whether `Path(repo.local_path).exists()` held for that binding
    now,            \* the instant datetime.now() returns
    reports,        \* the strings generate_report has returned, in order
    fs,             \* the registry file: what the two paths main tries hold
    registry_path,  \* the path main gives to CruftManager, or None before
    config,         \* self.config of the manager, or None before it is loaded
    exit_code,      \* the exit status of the process, or None while it runs
    found           \* what scan_github_for_repos returned, or None before it returns

\* the state of the reporting and of the loading of the registry
report_vars == <<now, reports>>
load_vars == <<fs, registry_path, config, exit_code>>
scan_vars == <<found>>

\* what the steps of the pipeline of one binding leave as it is
others == <<local_exists, report_vars, load_vars, scan_vars>>

vars == <<repositories, dry_run, idx, pc, result, results, cmds, reads, tmp_dirs, raised,
          others>>

----------------------------------------------------------------------------
(* Bounds of the model *)

\* The keys of the mapping `repositories` of the largest registry, in order.
Names == <<"A", "B">>

\* The longest diff output the environment produces, in lines.
MaxDiffLines == 51

\* the largest instant of the clock
MaxClock == 2

\* the number of reports generated from one list of outcomes
MaxReports == 2

\* the largest number of items in the output of the search
MaxScanItems == 3

----------------------------------------------------------------------------
(* Python values *)

\* Optional values: None, or Some(v) for a value v.  A str is the sequence
\* of its characters (or of the pieces an f-string joins); "" is <<>>.
None == [some |-> FALSE]
Some(v) == [some |-> TRUE, val |-> v]

Min(a, b) == IF a <= b THEN a ELSE b

\* s[:n] on a list or a string (a string is the sequence of its characters)
Take(s, n) == SubSeq(s, 1, Min(n, Len(s)))

\* the cap of `result.changes`
LineCap == 50

\* the number of characters of a revision identifier a commit message keeps
ShortLen == 8

\* bool(x) of an Optional[str]
Truthy(x) == x.some /\ x.val # <<>>

\* d.get(key, default) on a dict (a function on its keys)
DictGet(d, key, default) == IF key \in DOMAIN d THEN d[key] ELSE default

Unknown == <<"u", "n", "k", "n", "o", "w", "n">>

Whitespace == {" ", "\n", "\t"}

\* str.strip()
RECURSIVE LStrip(_)
LStrip(s) == IF s # <<>> /\ Head(s) \in Whitespace THEN LStrip(Tail(s)) ELSE s

RECURSIVE RStrip(_)
RStrip(s) ==
    IF s # <<>> /\ s[Len(s)] \in Whitespace THEN RStrip(SubSeq(s, 1, Len(s) - 1)) ELSE s

Strip(s) == RStrip(LStrip(s))

\* str.split("\n"): the pieces between the newlines (one more than there are
\* newlines), computed on the two halves of s and joined at the seam
RECURSIVE SplitLines(_)
SplitLines(s) ==
    IF Len(s) = 0 THEN << <<>> >>
    ELSE IF Len(s) = 1 THEN (IF s[1] = "\n" THEN << <<>>, <<>> >> ELSE << s >>)
    ELSE LET h == Len(s) \div 2
             a == SplitLines(SubSeq(s, 1, h))
             b == SplitLines(SubSeq(s, h + 1, Len(s)))
         IN  SubSeq(a, 1, Len(a) - 1) \o << a[Len(a)] \o b[1] >> \o Tail(b)

----------------------------------------------------------------------------
(* Records of the program *)

DefaultBranchPrefix == "cruft/template-update"

\* dataclass Repository
Repository(name, local_path, auto_update) ==
    [name |-> name, template |-> "python", github |-> <<"org/", name>>,
     local_path |-> local_path, auto_update |-> auto_update,
     branch_prefix |-> DefaultBranchPrefix]

\* dataclass UpdateResult with its defaults
UpdateResult(repo, success, needs_update, error) ==
    [repo |-> repo, success |-> success, needs_update |-> needs_update,
     old_commit |-> None, new_commit |-> None, pr_url |-> None,
     error |-> error, changes |-> <<>>]

----------------------------------------------------------------------------
(* The environment: what files hold and what commands return *)

\* return codes of an external command
RCs == {0, 1}

Stderr == <<"stderr">>

\* revision identifiers, longer than ShortLen: the one a repository was
\* generated from and the one of the template now
RevOld == <<"a", "b", "c", "1", "2", "3", "4", "5", "6", "7">>
RevNew == <<"d", "e", "f", "4", "5", "6", "7", "8", "9", "0">>

EmptyDoc == [k \in {} |-> <<>>]

\* the documents a well-formed .cruft.json may hold at revision r: an empty
\* mapping, one without the key "commit", one with it
Docs(r) == {EmptyDoc, [context |-> <<"c">>], [commit |-> r, context |-> <<"c">>]}

\* the states of the file .cruft.json of a workspace at revision r
CruftFiles(r) ==
    {[exists |-> FALSE, valid |-> FALSE, doc |-> EmptyDoc],
     [exists |-> TRUE, valid |-> FALSE, doc |-> EmptyDoc]} \cup
    {[exists |-> TRUE, valid |-> TRUE, doc |-> d] : d \in Docs(r)}

\* a diff output of n lines, each ended by a newline
DiffText(n) == [i \in 1..(2 * n) |-> IF i % 2 = 1 THEN "d" ELSE "\n"]

DiffOutputs == {DiffText(n) : n \in {0, 2, MaxDiffLines}}

\* outputs of `git status --porcelain`: nothing, blank, one modified file
StatusOutputs == {<<>>, <<" ", "\n">>, <<" ", "M", " ", "f", "\n">>}

\* outputs of `gh pr create`: the URL of the pull request, or an empty line
\* (all a failed call prints)
PrOutputs == {<<"u", "r", "l", "\n">>, <<"\n">>}

----------------------------------------------------------------------------
(* Helpers of run_updates *)

\* repo_path = Path(tmp_dir) / repo.name, in the temporary directory of binding i
RepoPath(i) == [tmp |-> i, name |-> repositories[i].name]

\* one call of _run_command: the command, where it ran, whether the process
\* could be started at all, its return code and what it printed
Call(cmd, args, cwd, ran, rc, stdout) ==
    [cmd |-> cmd, args |-> args, cwd |-> cwd, ran |-> ran, rc |-> rc, stdout |-> stdout]

\* results.append(result) that leaves a failed outcome out
append_outcome_if_ok(rs, r) == IF r.success THEN Append(rs, r) ELSE rs

\* results.append(result)
append_outcome(rs, r) == Append(rs, r)

\* leaving the `with tempfile.TemporaryDirectory()` block with an outcome:
\* the outcome is appended and the loop goes to the next binding
Finish(res) ==
    /\ results' = append_outcome(results, res)
    /\ result' = None
    /\ idx' = idx + 1
    /\ pc' = "for"
    /\ tmp_dirs' = tmp_dirs \ {idx}
    /\ UNCHANGED <<raised, others>>

\* going on to the next statement of the same binding
Goto(res, next) ==
    /\ result' = res
    /\ pc' = next
    /\ UNCHANGED <<results, idx, tmp_dirs, raised, others>>

\* an exception that leaves the temporary directory behind
Raise_keeps_dir(exc) ==
    /\ raised' = Some(exc)
    /\ pc' = "raised"
    /\ result' = None
    /\ UNCHANGED <<results, idx, tmp_dirs, others>>

\* an exception nobody catches: the with block removes the directory and
\* the exception leaves run_updates
Raise(exc) ==
    /\ raised' = Some(exc)
    /\ pc' = "raised"
    /\ result' = None
    /\ tmp_dirs' = tmp_dirs \ {idx}
    /\ UNCHANGED <<results, idx, others>>

\* subprocess.run could not start the process (OSError)
CannotRun(cmd, args, cwd) ==
    /\ cmds' = Append(cmds, Call(cmd, args, cwd, FALSE, 0, <<>>))
    /\ Raise("OSError")

----------------------------------------------------------------------------
(* run_updates: the loop and the acquisition of the workspace *)

\* the values of `local_path` of a registry entry: not given, or a path
LocalPaths == {None, Some(<<"/local">>)}

\* the lists _parse_repositories can return: one binding per key of the
\* mapping `repositories`, in the order of the keys
Registries ==
    UNION {{[i \in 1..k |-> Repository(Names[i], lp[i], au[i])] :
                lp \in [1..k -> LocalPaths], au \in [1..k -> BOOLEAN]} :
           k \in 0..Len(Names)}

Init ==
    /\ repositories \in Registries
    /\ dry_run \in BOOLEAN
    /\ idx = 1
    /\ pc = "for"
    /\ result = None
    /\ results = <<>>
    /\ cmds = <<>>
    /\ reads = <<>>
    /\ tmp_dirs = {}
    /\ raised = None
    /\ local_exists = FALSE
    /\ now = 0
    /\ reports = <<>>
    /\ fs = None
    /\ registry_path = None
    /\ config = None
    /\ exit_code = None
    /\ found = None

\* the local checkout is used whenever a local path is given
use_local_unchecked(repo, exists) == Truthy(repo.local_path)

\* `if repo.local_path and Path(repo.local_path).exists()`
use_local(repo, exists) == Truthy(repo.local_path) /\ exists

\* `for repo in self.repositories` with a binding left: the temporary
\* directory is made and the way to fill it is chosen
ForNext ==
    /\ pc = "for"
    /\ idx <= Len(repositories)
    /\ \E exists \in BOOLEAN :
        LET repo == repositories[idx] IN
        /\ pc' = IF use_local(repo, exists) THEN "copytree" ELSE "clone"
        /\ local_exists' = (Truthy(repo.local_path) /\ exists)
    /\ tmp_dirs' = tmp_dirs \cup {idx}
    /\ cmds' = <<>>
    /\ reads' = <<>>
    /\ UNCHANGED <<repositories, dry_run, idx, result, results, raised, report_vars, load_vars,
                   scan_vars>>

\* the loop is over: return results
ForExit ==
    /\ pc = "for"
    /\ idx > Len(repositories)
    /\ pc' = "returned"
    /\ UNCHANGED <<repositories, dry_run, idx, result, results, cmds, reads, tmp_dirs, raised,
                   others>>

\* shutil.copytree(repo.local_path, repo_path)
CopyTree ==
    /\ pc = "copytree"
    /\ \E ok \in BOOLEAN :
        IF ok THEN Goto(None, "get_cruft_info") ELSE Raise("shutil.Error")
    /\ UNCHANGED <<repositories, dry_run, cmds, reads>>

\* _clone_repo that does not look at the return code
clone_ok_always(rc) == TRUE

\* _clone_repo: result.returncode == 0
clone_ok(rc) == rc = 0

CloneArgs(i) ==
    <<"--depth=1", <<"https://github.com/", repositories[i].github, ".git">>, RepoPath(i)>>

\* `if not self._clone_repo(repo, repo_path)`: append the failure and continue
CloneRepo ==
    /\ pc = "clone"
    /\ \/ \E rc \in RCs :
            /\ cmds' = Append(cmds, Call("git clone", CloneArgs(idx), None, TRUE, rc, <<>>))
            /\ IF clone_ok(rc)
               THEN Goto(None, "get_cruft_info")
               ELSE Finish(UpdateResult(repositories[idx], FALSE, FALSE,
                                        Some(<<"Failed to clone repository">>)))
       \/ CannotRun("git clone", CloneArgs(idx), None)
    /\ UNCHANGED <<repositories, dry_run, reads>>

----------------------------------------------------------------------------
(* check_for_updates *)

\* _get_cruft_info on a file that can be read: None when it is absent
get_cruft_info(f) == IF f.exists THEN Some(f.doc) ELSE None

\* json.load raises on a file that is no JSON
LoadRaises(f) == f.exists /\ ~f.valid

\* a test of the cruft info that takes an empty mapping for a binding state
NotCruftInfo_none_only(ci) == ~ci.some

\* `not cruft_info`: None, or an empty dict
NotCruftInfo(ci) == ~ci.some \/ DOMAIN ci.val = {}

\* a workspace without .cruft.json reported as a success without error
no_cruft_info_unmanaged(res) == res

\* the outcome of a workspace without .cruft.json
no_cruft_info(res) ==
    [res EXCEPT !.success = FALSE,
                !.error = Some(<<"No .cruft.json found - not a cruft-managed repo">>)]

\* run_updates that calls apply_update whatever dry_run says
check_only_never(dry) == FALSE

\* `if dry_run:` in run_updates: only check_for_updates is called
check_only(dry) == dry

\* apply_update without the test of repo.auto_update
goes_on_any(res, repo) == res.needs_update

\* `if not repo.auto_update:` and `if not result.needs_update:` in apply_update
goes_on(res, repo) == res.needs_update /\ repo.auto_update

\* check_for_updates returns res: to run_updates in a dry run, which appends
\* it, and to apply_update otherwise, which returns it or goes on
ReturnFromCheck(res) ==
    IF check_only(dry_run) THEN Finish(res)
    ELSE IF goes_on(res, repositories[idx]) THEN Goto(res, "git_checkout")
    ELSE Finish(res)

\* result = UpdateResult(...); cruft_info = self._get_cruft_info(repo_path)
GetCruftInfo ==
    /\ pc = "get_cruft_info"
    /\ \E f \in CruftFiles(RevOld) :
        /\ reads' = Append(reads, f)
        /\ LET res == UpdateResult(repositories[idx], TRUE, FALSE, None)
               ci == get_cruft_info(f)
           IN
            IF LoadRaises(f) THEN Raise("JSONDecodeError")
            ELSE IF NotCruftInfo(ci) THEN ReturnFromCheck(no_cruft_info(res))
            ELSE Goto([res EXCEPT !.old_commit =
                                     Some(DictGet(ci.val, "commit", Unknown))],
                      "cruft_check")
    /\ UNCHANGED <<repositories, dry_run, cmds>>

\* check_result = self._run_command(["cruft", "check"], cwd=repo_path)
CruftCheck ==
    /\ pc = "cruft_check"
    /\ \/ \E rc \in RCs :
            /\ cmds' = Append(cmds, Call("cruft check", <<>>, Some(RepoPath(idx)), TRUE, rc, <<>>))
            /\ IF rc # 0
               THEN Goto([result EXCEPT !.needs_update = TRUE], "cruft_diff")
               ELSE ReturnFromCheck(result)
       \/ CannotRun("cruft check", <<>>, Some(RepoPath(idx)))
    /\ UNCHANGED <<repositories, dry_run, reads>>

\* the change lines kept whole
limit_lines_none(lines) == lines

\* diff_result.stdout.split("\n")[:50]
limit_lines(lines) == Take(lines, LineCap)

\* diff_result = self._run_command(["cruft", "diff"], cwd=repo_path)
CruftDiff ==
    /\ pc = "cruft_diff"
    /\ \/ \E stdout \in DiffOutputs :
            /\ cmds' = Append(cmds, Call("cruft diff", <<>>, Some(RepoPath(idx)), TRUE, 0, stdout))
            /\ ReturnFromCheck(IF stdout # <<>>
                               THEN [result EXCEPT !.changes = limit_lines(SplitLines(stdout))]
                               ELSE result)
       \/ CannotRun("cruft diff", <<>>, Some(RepoPath(idx)))
    /\ UNCHANGED <<repositories, dry_run, reads>>

----------------------------------------------------------------------------
(* apply_update, after check_for_updates *)

\* datetime.now().strftime('%Y%m%d')
Today == <<"2", "0", "2", "5", "0", "1", "0", "1">>

\* f"{repo.branch_prefix}-{datetime.now().strftime('%Y%m%d')}"
branch_name(repo) == <<repo.branch_prefix, "-", Today>>

\* self._run_command(["git", "checkout", "-b", branch_name], cwd=repo_path)
GitCheckout ==
    /\ pc = "git_checkout"
    /\ LET args == <<"-b", branch_name(repositories[idx])>> IN
       \/ \E rc \in RCs :
            /\ cmds' = Append(cmds, Call("git checkout", args, Some(RepoPath(idx)), TRUE, rc, <<>>))
            /\ Goto(result, "cruft_update")
       \/ CannotRun("git checkout", args, Some(RepoPath(idx)))
    /\ UNCHANGED <<repositories, dry_run, reads>>

\* a failed `cruft update` that sets no error
update_failed_no_error(res, stderr) == [res EXCEPT !.success = FALSE]

\* a failed `cruft update` that records the revision of the template all the same
update_failed_with_revision(res, stderr) ==
    [res EXCEPT !.success = FALSE, !.error = Some(<<"Cruft update failed: ", stderr>>),
                !.new_commit = Some(RevNew)]

\* a failed `cruft update` that sets the error and leaves success as it was
update_failed_keeps_success(res, stderr) ==
    [res EXCEPT !.error = Some(<<"Cruft update failed: ", stderr>>)]

\* the outcome of a failed `cruft update`
update_failed(res, stderr) ==
    [res EXCEPT !.success = FALSE, !.error = Some(<<"Cruft update failed: ", stderr>>)]

\* update_result = self._run_command(["cruft", "update", ...], cwd=repo_path)
CruftUpdate ==
    /\ pc = "cruft_update"
    /\ LET args == <<"--skip-apply-ask", "-y">> IN
       \/ \E rc \in RCs :
            /\ cmds' = Append(cmds, Call("cruft update", args, Some(RepoPath(idx)), TRUE, rc, <<>>))
            /\ IF rc # 0
               THEN Finish(update_failed(result, Stderr))
               ELSE Goto(result, "get_new_cruft_info")
       \/ CannotRun("cruft update", args, Some(RepoPath(idx)))
    /\ UNCHANGED <<repositories, dry_run, reads>>

\* new_cruft_info = self._get_cruft_info(repo_path)
GetNewCruftInfo ==
    /\ pc = "get_new_cruft_info"
    /\ \E f \in CruftFiles(RevNew) :
        LET ci == get_cruft_info(f)
        IN  IF LoadRaises(f) THEN Raise("JSONDecodeError")
            ELSE IF NotCruftInfo(ci) THEN Goto(result, "git_status")
            ELSE Goto([result EXCEPT !.new_commit =
                                        Some(DictGet(ci.val, "commit", Unknown))],
                      "git_status")
    /\ UNCHANGED <<repositories, dry_run, cmds, reads>>

\* `not status_result.stdout.strip()`
nothing_to_commit(stdout) == Strip(stdout) = <<>>

\* a clean status that corrects needs_update and does not return
after_status_no_return(res, stdout) ==
    [res |-> IF Strip(stdout) = <<>> THEN [res EXCEPT !.needs_update = FALSE] ELSE res,
     next |-> "git_add"]

\* a clean status that returns and leaves needs_update as it was
after_status_keeps_flag(res, stdout) ==
    [res |-> res, next |-> IF Strip(stdout) = <<>> THEN "return" ELSE "git_add"]

\* changes to commit that are committed without being staged
after_status_skips_stage(res, stdout) ==
    IF Strip(stdout) = <<>>
    THEN [res |-> [res EXCEPT !.needs_update = FALSE], next |-> "return"]
    ELSE [res |-> res, next |-> "git_commit"]

\* `if not status_result.stdout.strip():` correct needs_update and return;
\* otherwise go on to stage and commit
after_status(res, stdout) ==
    IF nothing_to_commit(stdout)
    THEN [res |-> [res EXCEPT !.needs_update = FALSE], next |-> "return"]
    ELSE [res |-> res, next |-> "git_add"]

\* status_result = self._run_command(["git", "status", "--porcelain"], ...)
GitStatus ==
    /\ pc = "git_status"
    /\ \/ \E stdout \in StatusOutputs :
            /\ cmds' = Append(cmds, Call("git status", <<"--porcelain">>,
                                          Some(RepoPath(idx)), TRUE, 0, stdout))
            /\ LET a == after_status(result, stdout)
               IN  IF a.next = "return" THEN Finish(a.res) ELSE Goto(a.res, a.next)
       \/ CannotRun("git status", <<"--porcelain">>, Some(RepoPath(idx)))
    /\ UNCHANGED <<repositories, dry_run, reads>>

\* self._run_command(["git", "add", "-A"], cwd=repo_path)
GitAdd ==
    /\ pc = "git_add"
    /\ \/ \E rc \in RCs :
            /\ cmds' = Append(cmds, Call("git add", <<"-A">>, Some(RepoPath(idx)), TRUE, rc, <<>>))
            /\ Goto(result, "git_commit")
       \/ CannotRun("git add", <<"-A">>, Some(RepoPath(idx)))
    /\ UNCHANGED <<repositories, dry_run, reads>>

\* the revision identifier kept whole
short_whole(commit) == commit

\* commit[:8]
short(commit) == Take(commit, ShortLen)

\* the f-string commit_msg: its fixed text and the two revisions it embeds
commit_msg(res) ==
    [subject |-> "chore(deps): update from cookiecutter template",
     old |-> IF Truthy(res.old_commit) THEN short(res.old_commit.val) ELSE Unknown,
     new |-> IF Truthy(res.new_commit) THEN short(res.new_commit.val) ELSE Unknown,
     trailer |-> "Generated with cruft-manager"]

\* self._run_command(["git", "commit", "-m", commit_msg], cwd=repo_path)
GitCommit ==
    /\ pc = "git_commit"
    /\ LET args == <<"-m", commit_msg(result)>> IN
       \/ \E rc \in RCs :
            /\ cmds' = Append(cmds, Call("git commit", args, Some(RepoPath(idx)), TRUE, rc, <<>>))
            /\ Goto(result, "git_push")
       \/ CannotRun("git commit", args, Some(RepoPath(idx)))
    /\ UNCHANGED <<repositories, dry_run, reads>>

\* a failed `git push` that leaves the outcome a success
push_failed_keeps_success(res, stderr) ==
    [res EXCEPT !.error = Some(<<"Failed to push branch: ", stderr>>)]

\* the outcome of a failed `git push`
push_failed(res, stderr) ==
    [res EXCEPT !.success = FALSE, !.error = Some(<<"Failed to push branch: ", stderr>>)]

\* push_result = self._run_command(["git", "push", "-u", "origin", branch_name], ...)
GitPush ==
    /\ pc = "git_push"
    /\ LET args == <<"-u", "origin", branch_name(repositories[idx])>> IN
       \/ \E rc \in RCs :
            /\ cmds' = Append(cmds, Call("git push", args, Some(RepoPath(idx)), TRUE, rc, <<>>))
            /\ IF rc # 0
               THEN Finish(push_failed(result, Stderr))
               ELSE Goto(result, "gh_pr_create")
       \/ CannotRun("git push", args, Some(RepoPath(idx)))
    /\ UNCHANGED <<repositories, dry_run, reads>>

\* the number of change lines a pull request body quotes
PrBodyLines == 20

\* the arguments of pr_body_template.format(...)
pr_body(res, repo) ==
    [template_name |-> repo.template,
     old_commit |-> IF Truthy(res.old_commit) THEN res.old_commit.val ELSE Unknown,
     new_commit |-> IF Truthy(res.new_commit) THEN res.new_commit.val ELSE Unknown,
     changes |-> IF res.changes # <<>> THEN Take(res.changes, PrBodyLines)
                 ELSE <<"See diff">>]

\* a failed `gh pr create` that makes the outcome a failure
pr_outcome_fatal(res, rc, stdout, stderr) ==
    IF rc = 0 THEN [res EXCEPT !.pr_url = Some(Strip(stdout))]
    ELSE [res EXCEPT !.success = FALSE, !.error = Some(<<"Failed to create PR: ", stderr>>)]

\* the outcome after `gh pr create` returned rc and printed stdout
pr_outcome(res, rc, stdout, stderr) ==
    IF rc = 0 THEN [res EXCEPT !.pr_url = Some(Strip(stdout))]
    ELSE [res EXCEPT !.error = Some(<<"Failed to create PR: ", stderr>>)]

\* pr_result = self._run_command(["gh", "pr", "create", ...], cwd=repo_path)
GhPrCreate ==
    /\ pc = "gh_pr_create"
    /\ LET args == <<"--title", "chore: template update",
                     "--body", pr_body(result, repositories[idx]), "--base", "main">> IN
       \/ \E rc \in RCs, stdout \in PrOutputs :
            /\ rc # 0 => stdout = <<"\n">>
            /\ cmds' = Append(cmds, Call("gh pr create", args, Some(RepoPath(idx)), TRUE, rc, stdout))
            /\ Finish(pr_outcome(result, rc, stdout, Stderr))
       \/ CannotRun("gh pr create", args, Some(RepoPath(idx)))
    /\ UNCHANGED <<repositories, dry_run, reads>>

----------------------------------------------------------------------------

Next ==
    \/ ForNext
    \/ ForExit
    \/ CopyTree
    \/ CloneRepo
    \/ GetCruftInfo
    \/ CruftCheck
    \/ CruftDiff
    \/ GitCheckout
    \/ CruftUpdate
    \/ GetNewCruftInfo
    \/ GitStatus
    \/ GitAdd
    \/ GitCommit
    \/ GitPush
    \/ GhPrCreate

Spec == Init /\ [][Next]_vars

----------------------------------------------------------------------------
(* What the properties speak of *)

\* the commands that change the workspace or the remote
Mutating ==
    {"git checkout", "cruft update", "git add", "git commit", "git push", "gh pr create"}

Invoked(c) == \E k \in DOMAIN cmds : cmds[k].cmd = c

\* the call of command c for the binding in hand (each is made at most once)
TheCall(c) == cmds[CHOOSE k \in DOMAIN cmds : cmds[k].cmd = c]

\* command c ran and returned rc
Returned(c, rc) == \E k \in DOMAIN cmds : cmds[k].cmd = c /\ cmds[k].ran /\ cmds[k].rc = rc

Failed(c) == \E k \in DOMAIN cmds : cmds[k].cmd = c /\ cmds[k].ran /\ cmds[k].rc # 0

\* the processing of a binding has just ended with an outcome: cmds and
\* reads are the trace of that binding, Last is its outcome
Finished == pc \in {"for", "returned"} /\ idx > 1 /\ Len(results) = idx - 1

Last == results[Len(results)]

LastRepo == repositories[idx - 1]

\* t holds the first ShortLen characters of s, and no more
IsShortOf(t, s) ==
    /\ Len(t) = (IF Len(s) < ShortLen THEN Len(s) ELSE ShortLen)
    /\ \A j \in 1..Len(t) : t[j] = s[j]

----------------------------------------------------------------------------
(* C1: a completed run_updates returns exactly one outcome per binding, the
   i-th outcome being that of the i-th binding of the registry, however many
   of the bindings failed. *)
C1_OneOutcomePerBinding ==
    pc = "returned" =>
        /\ Len(results) = Len(repositories)
        /\ \A i \in DOMAIN results : results[i].repo = repositories[i]

\* a completed run of two bindings of which the first failed
C1_Witness ==
    /\ pc = "returned"
    /\ Len(repositories) = 2
    /\ Len(results) = 2
    /\ ~results[1].success
    /\ results[2].success

(* C2, as stated: in every outcome, success is false if and only if error
   is non-null. *)
C2_SuccessIffNoError ==
    \A i \in DOMAIN results : (~results[i].success) <=> (results[i].error # None)

(* C2, amended: in every outcome, success false implies a non-null error,
   and an outcome with a non-null error has success false unless the error
   is that of a failed pull request creation. *)
C2_FailureHasError ==
    \A i \in DOMAIN results :
        /\ ~results[i].success => results[i].error # None
        /\ (results[i].error # None /\ results[i].success) =>
               results[i].error = Some(<<"Failed to create PR: ", Stderr>>)

\* a run with a failed outcome and with an outcome whose pull request failed
C2_Witness ==
    /\ \E i \in DOMAIN results : ~results[i].success /\ results[i].error # None
    /\ \E i \in DOMAIN results : results[i].success /\ results[i].error # None

C4_PrUrlImpliesUpdated ==
    \A i \in DOMAIN results :
        results[i].pr_url # None => results[i].needs_update /\ results[i].success

\* an outcome with a pull request
C4_Witness == \E i \in DOMAIN results : results[i].pr_url # None

\* check_for_updates has just returned for a workspace with a .cruft.json:
\* its last command is the drift check that returned zero, or the diff
CheckReturned ==
    /\ cmds # <<>>
    /\ cmds[Len(cmds)].ran
    /\ \/ cmds[Len(cmds)].cmd = "cruft check" /\ cmds[Len(cmds)].rc = 0
       \/ cmds[Len(cmds)].cmd = "cruft diff"
    /\ pc = "git_checkout" \/ Finished

\* what check_for_updates returned: the result apply_update goes on with, or
\* the outcome it was returned as
CheckResult == IF pc = "git_checkout" THEN result ELSE Last

(* C5: for a workspace with a .cruft.json, check_for_updates returns
   needs_update false when the drift check returns zero, and needs_update
   true with at most 50 change lines when it returns nonzero, however long
   the diff output is. *)
C5_DriftCheckDecides ==
    CheckReturned =>
        /\ Returned("cruft check", 0) => ~CheckResult.needs_update
        /\ Failed("cruft check") =>
               CheckResult.needs_update /\ Len(CheckResult.changes) <= LineCap

\* a diff output of more than 50 lines has been cut to 50
C5_Witness ==
    /\ CheckReturned
    /\ Failed("cruft check")
    /\ Len(TheCall("cruft diff").stdout) > 2 * LineCap
    /\ Len(CheckResult.changes) = LineCap

(* C6: when auto_update is false and the drift check found drift, no branch,
   update, stage, commit, push or pull request command is invoked, and the
   outcome has needs_update true, success true and no pr_url. *)
C6_PolicySkip ==
    (Finished /\ ~LastRepo.auto_update /\ Failed("cruft check")) =>
        /\ \A c \in Mutating : ~Invoked(c)
        /\ Last.needs_update
        /\ Last.success
        /\ Last.pr_url = None

\* apply_update has skipped a binding that drifted and is not updated automatically
C6_Witness == ~dry_run /\ Finished /\ ~LastRepo.auto_update /\ Failed("cruft check")

\* the status printed nothing but white space
CleanStatus ==
    /\ Invoked("git status")
    /\ TheCall("git status").ran
    /\ \A j \in DOMAIN TheCall("git status").stdout :
           TheCall("git status").stdout[j] \in Whitespace

(* C7: when the update command succeeds and the status afterwards is clean,
   no stage, commit, push or pull request command is invoked and the outcome
   has needs_update false, success true and no pr_url. *)
C7_NothingToCommit ==
    (Finished /\ Returned("cruft update", 0) /\ CleanStatus) =>
        /\ \A c \in {"git add", "git commit", "git push", "gh pr create"} : ~Invoked(c)
        /\ ~Last.needs_update
        /\ Last.success
        /\ Last.pr_url = None

\* an update that changed nothing has been processed
C7_Witness ==
    /\ Finished /\ Returned("cruft update", 0) /\ CleanStatus
    /\ TheCall("git status").stdout = <<>>

\* the clone of the binding in hand returned nonzero
CloneFailed == cmds # <<>> /\ cmds[1].cmd = "git clone" /\ cmds[1].ran /\ cmds[1].rc # 0

(* C8: when a binding has no usable local path and the clone returns
   nonzero, its outcome is success false, error "Failed to clone
   repository", needs_update false; no other command is invoked for it, and
   the run goes on with the next binding (it returns only after the last). *)
C8_CloneFailure ==
    CloneFailed =>
        /\ Finished
        /\ raised = None
        /\ Last.repo = LastRepo
        /\ ~Last.success
        /\ Last.error = Some(<<"Failed to clone repository">>)
        /\ ~Last.needs_update
        /\ Len(cmds) = 1
        /\ pc = "returned" => idx = Len(repositories) + 1

\* the clone of the first of two bindings failed and the second is next
C8_Witness == CloneFailed /\ pc = "for" /\ idx = 2 /\ Len(repositories) = 2

\* every command of the update sequence ran and returned zero, the status
\* showing changes
FullSuccess ==
    /\ Finished
    /\ LastRepo.auto_update
    /\ Failed("cruft check")
    /\ \A c \in Mutating : Returned(c, 0)
    /\ Invoked("git status") /\ ~CleanStatus

(* C9: when drift is found, auto_update is true and every command of the
   sequence returns zero with a non-empty status, the outcome has success
   true, needs_update true, a pr_url and no error, and the commit message
   holds the first 8 characters of the prior and of the new revision
   identifier (of each one the outcome knows). *)
C9_FullUpdate ==
    FullSuccess =>
        /\ Last.success
        /\ Last.needs_update
        /\ Last.pr_url # None
        /\ Last.error = None
        /\ Last.old_commit # None
        /\ IsShortOf(TheCall("git commit").args[2].old, Last.old_commit.val)
        /\ Last.new_commit # None =>
               IsShortOf(TheCall("git commit").args[2].new, Last.new_commit.val)

\* a full update between two revision identifiers longer than 8 characters
C9_Witness ==
    /\ FullSuccess
    /\ Last.old_commit = Some(RevOld)
    /\ Last.new_commit = Some(RevNew)
    /\ Len(RevOld) > ShortLen /\ Len(RevNew) > ShortLen

(* C10: in a dry run no branch, update, stage, commit, push or pull request
   command is ever invoked: only the clone, the drift check and the diff. *)
C10_DryRunReadOnly ==
    dry_run => \A k \in DOMAIN cmds : cmds[k].cmd \in {"git clone", "cruft check", "cruft diff"}

\* a dry run has found a binding that drifted
C10_Witness == dry_run /\ Finished /\ Invoked("cruft diff") /\ Last.needs_update

----------------------------------------------------------------------------
\* the binding whose trace cmds, reads and local_exists hold: the one in
\* hand, or the one just ended when the loop is at its head
Cur == IF pc \in {"for", "returned"} THEN idx - 1 ELSE idx

\* the workspace of the binding has been filled: a statement after the copy
\* or the clone has been reached
Acquired ==
    /\ Cur >= 1
    /\ \/ pc \notin {"for", "returned", "raised", "copytree", "clone"}
       \/ reads # <<>>
       \/ \E k \in DOMAIN cmds : cmds[k].cmd # "git clone"

(* C11: when local_path is set and exists, the checkout is copied into the
   temporary directory, no clone is attempted and every command runs in the
   copy, never in local_path; otherwise a clone with --depth=1 is made into
   the temporary directory, and every later command runs there. *)
C11_WorkspaceAcquisition ==
    Cur >= 1 =>
        /\ \A k \in DOMAIN cmds :
               IF cmds[k].cmd = "git clone"
               THEN /\ k = 1
                    /\ cmds[k].cwd = None
                    /\ cmds[k].args[1] = "--depth=1"
                    /\ cmds[k].args[3] = [tmp |-> Cur, name |-> repositories[Cur].name]
               ELSE cmds[k].cwd = Some([tmp |-> Cur, name |-> repositories[Cur].name])
        /\ (repositories[Cur].local_path # None /\ local_exists) => ~Invoked("git clone")
        /\ (Acquired /\ ~(repositories[Cur].local_path # None /\ local_exists)) =>
               Returned("git clone", 0)

\* commands have run in the copy of a local checkout
C11_Witness ==
    /\ Cur >= 1
    /\ repositories[Cur].local_path # None /\ local_exists
    /\ Invoked("cruft check") /\ Invoked("git commit")

(* C12: the temporary directory of a binding exists only while that binding
   is processed, and only commands of that binding run in it; it is gone
   once the processing has ended, by an outcome or by an exception, and no
   directory is left when the run has ended. *)
C12_WorkspaceScoped ==
    /\ pc \in {"for", "returned", "raised"} => tmp_dirs = {}
    /\ pc \notin {"for", "returned", "raised"} => tmp_dirs = {idx}
    /\ \A k \in DOMAIN cmds : cmds[k].cwd # None => cmds[k].cwd.val.tmp = Cur

\* the second binding ended by an exception after the first got an outcome
C12_Witness == pc = "raised" /\ idx = 2 /\ Len(results) = 1 /\ tmp_dirs = {}

----------------------------------------------------------------------------
(* C13: repositories are processed independently: whatever the commands of
   the other bindings do, a binding gets its outcome.  Read on one run: when
   run_updates is over, by return or by an exception, every binding other
   than the one whose step raised has its outcome in the list. *)
C13_OthersUnaffected ==
    pc \in {"returned", "raised"} =>
        \A i \in 1..Len(repositories) :
            (pc = "raised" /\ i = idx) \/
                (i <= Len(results) /\ results[i].repo = repositories[i])

(* C14: a failure while a binding is processed is captured in the outcome of
   that binding and no exception leaves run_updates. *)
C14_NothingEscapes == raised = None /\ pc # "raised"

----------------------------------------------------------------------------
(* generate_report.  The report is "\n".join(lines); a line is the tuple of
   the pieces its f-string joins, beginning with its fixed text, and the
   separator between two lines is the piece list <<"\n">>.  The emoji of the
   source are written by their names and the backquotes around the two
   revisions are left out. *)

\* the instants datetime.now() can return
Clock == 0..MaxClock

\* datetime.isoformat() of an instant
isoformat(t) == <<"T", t>>

\* sum(1 for r in results if ...), on the flags of the elements
RECURSIVE Sum(_)
Sum(flags) == IF flags = <<>> THEN 0 ELSE (IF Head(flags) THEN 1 ELSE 0) + Sum(Tail(flags))

needs_update_count(rs) == Sum([i \in DOMAIN rs |-> rs[i].needs_update])

\* a count of the successful updates that takes any pr_url but None
successful_count_not_none(rs) == Sum([i \in DOMAIN rs |-> rs[i].success /\ rs[i].pr_url # None])

\* sum(1 for r in results if r.success and r.pr_url)
successful_count(rs) == Sum([i \in DOMAIN rs |-> rs[i].success /\ Truthy(rs[i].pr_url)])

error_count(rs) == Sum([i \in DOMAIN rs |-> ~rs[i].success])

\* a head whose title carries the instant too
report_head_stamped(rs, t) ==
    << <<"# Cruft Update Report", isoformat(t)>>,
       <<"Generated: ", isoformat(t)>>,
       <<"">>,
       <<"## Summary">>,
       <<"- Total repositories: ", Len(rs)>>,
       <<"- Updates available: ", needs_update_count(rs)>>,
       <<"- Successful updates: ", successful_count(rs)>>,
       <<"- Errors: ", error_count(rs)>>,
       <<"">>,
       <<"## Details">> >>

\* the lines before the details
report_head(rs, t) ==
    << <<"# Cruft Update Report">>,
       <<"Generated: ", isoformat(t)>>,
       <<"">>,
       <<"## Summary">>,
       <<"- Total repositories: ", Len(rs)>>,
       <<"- Updates available: ", needs_update_count(rs)>>,
       <<"- Successful updates: ", successful_count(rs)>>,
       <<"- Errors: ", error_count(rs)>>,
       <<"">>,
       <<"## Details">> >>

\* the number of characters of a revision identifier the report shows
ReportShortLen == 8

\* a block of details that never shows the error
report_block_no_error(r) ==
    << <<"\n### ", r.repo.name, " ", IF r.success THEN "check mark" ELSE "cross mark">>,
       <<"- Status: ", IF r.needs_update THEN "package needs update" ELSE "check up to date">> >>
    \o (IF Truthy(r.pr_url) THEN << <<"- PR: ", r.pr_url.val>> >> ELSE <<>>)
    \o (IF Truthy(r.old_commit) /\ Truthy(r.new_commit)
        THEN << <<"- Commits: ", Take(r.old_commit.val, ReportShortLen), " -> ",
                  Take(r.new_commit.val, ReportShortLen)>> >>
        ELSE <<>>)

\* the lines the loop appends for one outcome
report_block(r) ==
    << <<"\n### ", r.repo.name, " ", IF r.success THEN "check mark" ELSE "cross mark">>,
       <<"- Status: ", IF r.needs_update THEN "package needs update" ELSE "check up to date">> >>
    \o (IF Truthy(r.pr_url) THEN << <<"- PR: ", r.pr_url.val>> >> ELSE <<>>)
    \o (IF Truthy(r.error) THEN << <<"- Error: ", r.error.val>> >> ELSE <<>>)
    \o (IF Truthy(r.old_commit) /\ Truthy(r.new_commit)
        THEN << <<"- Commits: ", Take(r.old_commit.val, ReportShortLen), " -> ",
                  Take(r.new_commit.val, ReportShortLen)>> >>
        ELSE <<>>)

RECURSIVE report_details(_)
report_details(rs) == IF rs = <<>> THEN <<>> ELSE report_block(Head(rs)) \o report_details(Tail(rs))

\* "\n".join(lines)
Join(lines) ==
    [k \in 1..(2 * Len(lines) - 1) |-> IF k % 2 = 1 THEN lines[(k + 1) \div 2] ELSE <<"\n">>]

generate_report(rs, t) == Join(report_head(rs, t) \o report_details(rs))

\* the positions of the headings of the detail blocks of a report
Headings(rep) == {k \in DOMAIN rep : rep[k][1] = "\n### "}

\* the i-th detail block of a report: from its heading to the line before
\* the next heading, or to the end
Block(rep, i) ==
    LET P == Headings(rep)
        k == CHOOSE h \in P : Cardinality({j \in P : j < h}) = i - 1
        later == {j \in P : j > k}
        e == IF later = {} THEN Len(rep)
             ELSE (CHOOSE j \in later : \A m \in later : j <= m) - 1
    IN  SubSeq(rep, k, e)

(* C15: the report of a completed run has exactly one detail block for each
   registered repository, in the order of the registry, and the block of a
   repository whose processing failed shows the error of its outcome. *)
C15_ReportListsEveryRepository ==
    pc = "returned" =>
        \A t \in Clock :
            LET rep == generate_report(results, t) IN
            /\ Cardinality(Headings(rep)) = Len(repositories)
            /\ \A i \in 1..Len(repositories) :
                   LET b == Block(rep, i) IN
                   /\ b[1][2] = repositories[i].name
                   /\ (~results[i].success \/ results[i].error # None) =>
                          \E k \in DOMAIN b :
                              b[k][1] = "- Error: " /\ b[k][2] = results[i].error.val

C15_Witness ==
    /\ pc = "returned"
    /\ Len(repositories) = 2
    /\ ~results[1].success
    /\ results[2].success /\ results[2].pr_url # None

----------------------------------------------------------------------------
(* generate_report on any list of outcomes: the list is chosen at the start,
   the clock advances, and each call returns one more string. *)

\* the outcomes a list given to generate_report may hold for binding i
Outcomes(i) ==
    {[repo |-> Repository(Names[i], None, TRUE), success |-> s, needs_update |-> n,
      old_commit |-> c[1], new_commit |-> c[2], pr_url |-> u, error |-> e, changes |-> <<>>] :
        s \in BOOLEAN, n \in BOOLEAN,
        c \in {<<None, None>>, <<Some(RevOld), Some(RevNew)>>},
        u \in {None, Some(<<>>), Some(<<"u", "r", "l">>)},
        e \in {None, Some(Stderr)}}

OutcomeLists ==
    UNION {{rs \in [1..k -> UNION {Outcomes(i) : i \in 1..k}] :
                \A i \in 1..k : rs[i] \in Outcomes(i)} : k \in 0..Len(Names)}

InitReport ==
    /\ results \in OutcomeLists
    /\ now = 0
    /\ reports = <<>>
    /\ pc = "report"
    /\ repositories = <<>>
    /\ dry_run = FALSE
    /\ idx = 1
    /\ result = None
    /\ cmds = <<>>
    /\ reads = <<>>
    /\ tmp_dirs = {}
    /\ raised = None
    /\ local_exists = FALSE
    /\ fs = None
    /\ registry_path = None
    /\ config = None
    /\ exit_code = None
    /\ found = None

\* time passes
Tick ==
    /\ now < MaxClock
    /\ now' = now + 1
    /\ UNCHANGED <<repositories, dry_run, idx, pc, result, results, cmds, reads, tmp_dirs,
                   raised, local_exists, reports, load_vars, scan_vars>>

\* report = manager.generate_report(results)
GenerateReport ==
    /\ Len(reports) < MaxReports
    /\ reports' = Append(reports, generate_report(results, now))
    /\ UNCHANGED <<repositories, dry_run, idx, pc, result, results, cmds, reads, tmp_dirs,
                   raised, local_exists, now, load_vars, scan_vars>>

NextReport == Tick \/ GenerateReport

SpecReport == InitReport /\ [][NextReport]_vars

\* the number a report gives after the label of a line of its summary
SummaryCount(rep, label) == rep[CHOOSE k \in DOMAIN rep : rep[k][1] = label][2]

(* C16: the summary of a report gives, for any list of outcomes: as total the
   number of outcomes, as updates available the number of outcomes with
   needs_update true, as successful updates the number with success true and
   a pr_url that is neither None nor empty, and as errors the number of
   outcomes with success false. *)
C16_SummaryCounts ==
    \A j \in DOMAIN reports :
        LET rep == reports[j] IN
        /\ \A label \in {"- Total repositories: ", "- Updates available: ",
                         "- Successful updates: ", "- Errors: "} :
               Cardinality({k \in DOMAIN rep : rep[k][1] = label}) = 1
        /\ SummaryCount(rep, "- Total repositories: ") = Cardinality(DOMAIN results)
        /\ SummaryCount(rep, "- Updates available: ") =
               Cardinality({i \in DOMAIN results : results[i].needs_update})
        /\ SummaryCount(rep, "- Successful updates: ") =
               Cardinality({i \in DOMAIN results :
                   /\ results[i].success
                   /\ results[i].pr_url # None
                   /\ Len(results[i].pr_url.val) > 0})
        /\ SummaryCount(rep, "- Errors: ") =
               Cardinality({i \in DOMAIN results : ~results[i].success})

C16_Witness ==
    /\ reports # <<>>
    /\ Len(results) = 2
    /\ results[1].success /\ results[1].pr_url = Some(<<>>) /\ results[1].needs_update
    /\ ~results[2].success /\ results[2].pr_url # None

(* C17 as stated: two calls of generate_report on the same list of outcomes
   return the same string. *)
C17_SameListSameString ==
    \A i, j \in DOMAIN reports : reports[i] = reports[j]

\* the instant a report says it was generated at
GeneratedAt(rep) == rep[CHOOSE k \in DOMAIN rep : rep[k][1] = "Generated: "][2]

(* C17: generate_report changes no outcome, and two calls on the same list
   of outcomes return strings that differ at most in the instant of the line
   "Generated:"; calls at the same instant return the same string. *)
C17_SameButForInstant ==
    /\ [](\A i, j \in DOMAIN reports :
            /\ Len(reports[i]) = Len(reports[j])
            /\ \A k \in DOMAIN reports[i] :
                   reports[i][k][1] # "Generated: " => reports[i][k] = reports[j][k]
            /\ GeneratedAt(reports[i]) = GeneratedAt(reports[j]) => reports[i] = reports[j])
    /\ [][\A j \in DOMAIN reports : reports'[j] = reports[j]]_vars
    /\ [][results' = results /\ repositories' = repositories]_vars

C17_Witness ==
    /\ Len(reports) = 2
    /\ Len(results) = 2
    /\ GeneratedAt(reports[1]) # GeneratedAt(reports[2])

----------------------------------------------------------------------------
(* main up to the call of run_updates: the registry file is looked for,
   loaded by CruftManager.__init__ and parsed into the bindings.  A mapping
   of YAML is a function on its keys; the mapping `repositories` is the
   sequence of its items, in the order of its keys. *)

\* d with the key k set to v when `present` holds
WithKey(present, k, v) == IF present THEN k :> v ELSE EmptyDoc

\* the values an entry of `repositories` may have: null, or a mapping with
\* or without `template` and `branch_prefix`
EntryConfigs(name) ==
    {[mapping |-> FALSE, val |-> EmptyDoc]} \cup
    {[mapping |-> TRUE,
      val |-> ("github" :> <<"org/", name>>) @@ WithKey(t.some, "template", t.val)
                  @@ WithKey(b, "branch_prefix", "repo/prefix")] :
        t \in {[some |-> FALSE, val |-> ""], [some |-> TRUE, val |-> "python"],
               [some |-> TRUE, val |-> "other"]},
        b \in BOOLEAN}

\* the items of the mappings `repositories` a document may hold
RepositoryItems ==
    UNION {{[i \in 1..k |-> [name |-> Names[i], config |-> c[i]]] :
                c \in {f \in [1..k -> UNION {EntryConfigs(Names[i]) : i \in 1..k}] :
                           \A i \in 1..k : f[i] \in EntryConfigs(Names[i])}} :
           k \in 0..Len(Names)}

\* the documents yaml.safe_load may return: something that is no mapping
\* (None for an empty file, a list, a scalar), or a mapping with or without
\* the keys `templates`, `settings` and `repositories`
YamlDocs ==
    {[mapping |-> FALSE, val |-> EmptyDoc]} \cup
    {[mapping |-> TRUE,
      val |-> WithKey(t, "templates", [python |-> [url |-> "https://template"]])
                  @@ WithKey(st, "settings", [branch_prefix |-> "settings/prefix"])
                  @@ WithKey(r.some, "repositories", r.val)] :
        t \in BOOLEAN, st \in BOOLEAN,
        r \in {[some |-> FALSE, val |-> <<>>]} \cup
              {[some |-> TRUE, val |-> items] : items \in RepositoryItems}}

\* what a path may hold: nothing, a file that cannot be opened, a file that
\* is not YAML, a file holding a document
Files ==
    {[exists |-> FALSE, readable |-> FALSE, wellformed |-> FALSE, doc |-> None],
     [exists |-> TRUE, readable |-> FALSE, wellformed |-> FALSE, doc |-> None],
     [exists |-> TRUE, readable |-> TRUE, wellformed |-> FALSE, doc |-> None]} \cup
    {[exists |-> TRUE, readable |-> TRUE, wellformed |-> TRUE, doc |-> Some(d)] : d \in YamlDocs}

InitLoad ==
    /\ fs \in [cwd : Files, script_dir : Files]
    /\ registry_path = None
    /\ config = None
    /\ exit_code = None
    /\ found = None
    /\ pc = "main"
    /\ raised = None
    /\ repositories = <<>>
    /\ dry_run = FALSE
    /\ idx = 1
    /\ result = None
    /\ results = <<>>
    /\ cmds = <<>>
    /\ reads = <<>>
    /\ tmp_dirs = {}
    /\ local_exists = FALSE
    /\ now = 0
    /\ reports = <<>>

\* the variables of run_updates and of the report, which loading leaves alone
run_vars ==
    <<dry_run, idx, result, results, cmds, reads, tmp_dirs, local_exists, report_vars, scan_vars>>

\* the exit status of an interpreter that ends by an uncaught exception
UncaughtExit == 1

\* an exception main does not catch: the process ends
RaiseOutOfMain(exc) ==
    /\ raised' = Some(exc)
    /\ pc' = "raised"
    /\ exit_code' = Some(UncaughtExit)

\* `if not registry_path.exists()`: try the path relative to the script
FindRegistry ==
    /\ pc = "main"
    /\ registry_path' = IF fs.cwd.exists THEN Some("cwd") ELSE Some("script_dir")
    /\ pc' = "load"
    /\ UNCHANGED <<fs, config, exit_code, raised, repositories, run_vars>>

\* _load_registry that takes a missing file for an empty registry
load_outcome_lenient(file) ==
    IF ~file.exists THEN [raises |-> None, doc |-> Some([mapping |-> TRUE, val |-> EmptyDoc])]
    ELSE IF ~file.readable THEN [raises |-> Some("OSError"), doc |-> None]
    ELSE IF ~file.wellformed THEN [raises |-> Some("yaml.YAMLError"), doc |-> None]
    ELSE [raises |-> None, doc |-> file.doc]

\* _load_registry: the exception it raises, or the document it returns
load_outcome(file) ==
    IF ~file.exists THEN [raises |-> Some("FileNotFoundError"), doc |-> None]
    ELSE IF ~file.readable THEN [raises |-> Some("OSError"), doc |-> None]
    ELSE IF ~file.wellformed THEN [raises |-> Some("yaml.YAMLError"), doc |-> None]
    ELSE [raises |-> None, doc |-> file.doc]

\* self.config = self._load_registry()
LoadRegistry ==
    /\ pc = "load"
    /\ LET out == load_outcome(fs[registry_path.val]) IN
       IF out.raises # None
       THEN RaiseOutOfMain(out.raises.val) /\ UNCHANGED config
       ELSE config' = out.doc /\ pc' = "parse" /\ UNCHANGED <<raised, exit_code>>
    /\ UNCHANGED <<fs, registry_path, repositories, run_vars>>

\* self.templates and self.settings
templates(cfg) == DictGet(cfg, "templates", EmptyDoc)
settings(cfg) == DictGet(cfg, "settings", EmptyDoc)

\* the prefix of a binding, taken from its entry or else the default,
\* whatever the settings say
branch_prefix_no_settings(c, st) == DictGet(c, "branch_prefix", DefaultBranchPrefix)

\* config.get("branch_prefix", self.settings.get("branch_prefix", "cruft/template-update"))
branch_prefix_of(c, st) ==
    DictGet(c, "branch_prefix", DictGet(st, "branch_prefix", DefaultBranchPrefix))

\* the Repository made of one item of `repositories`
parse_repository(name, c, st) ==
    [name |-> name,
     template |-> DictGet(c, "template", ""),
     github |-> DictGet(c, "github", <<>>),
     local_path |-> IF "local_path" \in DOMAIN c THEN Some(c["local_path"]) ELSE None,
     auto_update |-> DictGet(c, "auto_update", TRUE),
     branch_prefix |-> branch_prefix_of(c, st)]

\* _parse_repositories on a mapping cfg
_parse_repositories(cfg) ==
    LET items == DictGet(cfg, "repositories", <<>>) IN
    [i \in DOMAIN items |-> parse_repository(items[i].name, items[i].config.val, settings(cfg))]

\* the rest of __init__: templates, settings and the bindings; `.get` on
\* something that is no mapping raises AttributeError
ParseRepositories ==
    /\ pc = "parse"
    /\ LET doc == config.val
           items == DictGet(doc.val, "repositories", <<>>)
       IN  IF ~doc.mapping \/ \E i \in DOMAIN items : ~items[i].config.mapping
           THEN RaiseOutOfMain("AttributeError") /\ UNCHANGED repositories
           ELSE /\ repositories' = _parse_repositories(doc.val)
                /\ pc' = "loaded"
                /\ UNCHANGED <<raised, exit_code>>
    /\ UNCHANGED <<fs, registry_path, config, run_vars>>

\* `if args.scan`: the scan mode is entered
EnterScan ==
    /\ pc = "loaded"
    /\ pc' = "scan"
    /\ UNCHANGED <<fs, registry_path, config, exit_code, raised, repositories, run_vars>>

\* the update mode: manager.run_updates(dry_run=args.dry_run) is called
RunUpdates ==
    /\ pc = "loaded"
    /\ \E d \in BOOLEAN : dry_run' = d
    /\ pc' = "for"
    /\ UNCHANGED <<fs, registry_path, config, exit_code, raised, repositories, idx, result,
                   results, cmds, reads, tmp_dirs, local_exists, report_vars, scan_vars>>

NextLoad == FindRegistry \/ LoadRegistry \/ ParseRepositories \/ EnterScan \/ RunUpdates

SpecLoad == InitLoad /\ [][NextLoad]_vars

\* the exceptions of the code in the roles the specification names
\* ConfigurationError and ParseError
ConfigurationError == "FileNotFoundError"
ParseError == "yaml.YAMLError"

\* main has got past the construction of the manager
Loaded == pc \in {"loaded", "scan", "for"}

\* the file the manager was given
RegistryFile == fs[registry_path.val]

\* no binding exists and nothing of run_updates has happened
NothingProcessed ==
    /\ repositories = <<>> /\ results = <<>> /\ cmds = <<>> /\ reads = <<>>
    /\ tmp_dirs = {} /\ idx = 1 /\ reports = <<>>

(* C18: when the registry file is missing (at the path given and at the path
   relative to the script), loading raises the error of a missing registry;
   when the file that is read is not well-formed YAML, loading raises the
   parse error; in both cases no repository is processed and the process
   ends with a non-zero exit status. *)
C18_LoadFailure ==
    /\ pc \notin {"main", "load"} =>
           /\ (~fs.cwd.exists /\ ~fs.script_dir.exists) => raised = Some(ConfigurationError)
           /\ (RegistryFile.exists /\ RegistryFile.readable /\ ~RegistryFile.wellformed) =>
                  raised = Some(ParseError)
    /\ raised # None =>
           /\ pc = "raised"
           /\ NothingProcessed
           /\ exit_code # None /\ exit_code.val # 0
    /\ raised = None => exit_code = None

C18_Witness ==
    /\ raised = Some(ParseError)
    /\ registry_path = Some("script_dir")
    /\ exit_code = Some(1)

(* C19: after the registry is loaded, the template of every binding is a key
   of the mapping of templates of the registry, and no two bindings have the
   same name. *)
C19_TemplatesResolve ==
    Loaded =>
        /\ \A i \in DOMAIN repositories :
               repositories[i].template \in DOMAIN templates(config.val.val)
        /\ \A i, j \in DOMAIN repositories :
               repositories[i].name = repositories[j].name => i = j

(* C20: the branch prefix of every binding is the branch_prefix of its entry
   when the entry has one, otherwise the branch_prefix of the settings when
   they have one, otherwise "cruft/template-update"; it is set when the
   registry is parsed and no later step changes it. *)
C20_BranchPrefixResolution ==
    /\ [](Loaded =>
            LET doc == config.val.val
                items == doc["repositories"]
            IN  \A i \in DOMAIN repositories :
                    LET entry == items[i].config.val IN
                    repositories[i].branch_prefix =
                        IF "branch_prefix" \in DOMAIN entry THEN entry["branch_prefix"]
                        ELSE IF "settings" \in DOMAIN doc
                                  /\ "branch_prefix" \in DOMAIN doc["settings"]
                             THEN doc["settings"]["branch_prefix"]
                             ELSE "cruft/template-update")
    /\ [][pc # "parse" => repositories' = repositories]_vars

C20_Witness ==
    /\ pc = "for"
    /\ Len(repositories) = 2
    /\ repositories[1].branch_prefix = "repo/prefix"
    /\ repositories[2].branch_prefix = "settings/prefix"

----------------------------------------------------------------------------
(* scan_github_for_repos: one call of `gh search code` and the reading of
   its output.  A JSON object is a function on its keys, tagged as a
   mapping; any other value an item may be (null, a string, a number) is
   tagged as no mapping. *)

\* the identifiers the search may find
ScanNames == {"org/a", "org/b"}

NotAMapping == [mapping |-> FALSE, val |-> EmptyDoc]

JsonObject(f) == [mapping |-> TRUE, val |-> f]

\* the items the output of the search may hold: an object with the
\* repository and its nameWithOwner, an object without the key `repository`,
\* one whose repository has no `nameWithOwner`, one whose repository is no
\* object, and something that is no object
ScanItems ==
    {JsonObject([repository |-> JsonObject([nameWithOwner |-> n])]) : n \in ScanNames} \cup
    {JsonObject([path |-> ".cruft.json"]),
     JsonObject([repository |-> JsonObject([url |-> "u"])]),
     JsonObject([repository |-> NotAMapping]),
     NotAMapping}

\* what stdout of the search may be: text that is no JSON, JSON that is no
\* list (null), or a list of items
ScanOutputs ==
    {[valid |-> FALSE, list |-> FALSE, items |-> <<>>],
     [valid |-> TRUE, list |-> FALSE, items |-> <<>>]} \cup
    UNION {{[valid |-> TRUE, list |-> TRUE, items |-> its] : its \in [1..k -> ScanItems]} :
           k \in 0..MaxScanItems}

InitScan ==
    /\ pc = "scan"
    /\ found = None
    /\ cmds = <<>>
    /\ raised = None
    /\ repositories = <<>>
    /\ dry_run = FALSE
    /\ idx = 1
    /\ result = None
    /\ results = <<>>
    /\ reads = <<>>
    /\ tmp_dirs = {}
    /\ local_exists = FALSE
    /\ now = 0
    /\ reports = <<>>
    /\ fs = None
    /\ registry_path = None
    /\ config = None
    /\ exit_code = None

\* what the scan leaves alone
not_scan_vars ==
    <<repositories, dry_run, idx, result, results, reads, tmp_dirs, local_exists, report_vars,
      load_vars>>

SearchArgs ==
    <<"cookiecutter-python-template in:file filename:.cruft.json", "--json", "repository",
      "--limit", "100">>

\* a scan that goes on to read the output whatever the return code
search_failed_never(rc) == FALSE

\* `if result.returncode != 0`
search_failed(rc) == rc # 0

\* self._run_command(["gh", "search", "code", ...]) and the test of its
\* return code
GhSearch ==
    /\ pc = "scan"
    /\ \/ \E rc \in RCs, out \in ScanOutputs :
            /\ cmds' = Append(cmds, Call("gh search code", SearchArgs, None, TRUE, rc, out))
            /\ IF search_failed(rc)
               THEN found' = Some(<<>>) /\ pc' = "scanned"
               ELSE found' = found /\ pc' = "scan_parse"
            /\ UNCHANGED raised
       \/ /\ cmds' = Append(cmds, Call("gh search code", SearchArgs, None, FALSE, 0, <<>>))
          /\ raised' = Some("OSError")
          /\ pc' = "raised"
          /\ UNCHANGED found
    /\ UNCHANGED not_scan_vars

\* what r["repository"]["nameWithOwner"] does on the item r: its value, a
\* KeyError, or a TypeError when r or r["repository"] is no object
name_of(r) ==
    IF ~r.mapping THEN [raises |-> Some("TypeError"), val |-> ""]
    ELSE IF "repository" \notin DOMAIN r.val THEN [raises |-> Some("KeyError"), val |-> ""]
    ELSE LET repo == r.val["repository"] IN
         IF ~repo.mapping THEN [raises |-> Some("TypeError"), val |-> ""]
         ELSE IF "nameWithOwner" \notin DOMAIN repo.val
              THEN [raises |-> Some("KeyError"), val |-> ""]
              ELSE [raises |-> None, val |-> repo.val["nameWithOwner"]]

\* the exception the set comprehension ends by: that of the first item that
\* raises one, or None
first_raise(items) ==
    LET bad == {i \in DOMAIN items : name_of(items[i]).raises # None} IN
    IF bad = {} THEN None
    ELSE name_of(items[CHOOSE i \in bad : \A j \in bad : i <= j]).raises

\* the lists that hold every element of the set S once
ListsOf(S) ==
    {l \in [1..Cardinality(S) -> S] : \A i, j \in DOMAIN l : l[i] = l[j] => i = j}

\* a list that keeps every name the items give, in their order
names_with_repeats(items) == {[i \in DOMAIN items |-> name_of(items[i]).val]}

\* list({r["repository"]["nameWithOwner"] for r in results}): the names as
\* a set, in one of the orders a set may be listed in
names_listed(items) == ListsOf({name_of(items[i]).val : i \in DOMAIN items})

\* json.loads(result.stdout) and the comprehension, in the try block
ParseSearchOutput ==
    /\ pc = "scan_parse"
    /\ LET out == cmds[Len(cmds)].stdout IN
       IF ~out.valid
       THEN found' = Some(<<>>) /\ pc' = "scanned" /\ UNCHANGED raised
       ELSE IF ~out.list
       THEN raised' = Some("TypeError") /\ pc' = "raised" /\ UNCHANGED found
       ELSE LET exc == first_raise(out.items) IN
            IF exc = Some("KeyError")
            THEN found' = Some(<<>>) /\ pc' = "scanned" /\ UNCHANGED raised
            ELSE IF exc # None
            THEN raised' = exc /\ pc' = "raised" /\ UNCHANGED found
            ELSE /\ \E l \in names_listed(out.items) : found' = Some(l)
                 /\ pc' = "scanned"
                 /\ UNCHANGED raised
    /\ UNCHANGED <<cmds, not_scan_vars>>

NextScan == GhSearch \/ ParseSearchOutput

SpecScan == InitScan /\ [][NextScan]_vars

\* the search command as it was called
Search == cmds[1]

\* every item of the output is an object with a repository that is an
\* object with a nameWithOwner
AllNamed ==
    /\ Search.stdout.valid /\ Search.stdout.list
    /\ \A i \in DOMAIN Search.stdout.items :
           LET r == Search.stdout.items[i] IN
           /\ r.mapping /\ "repository" \in DOMAIN r.val
           /\ r.val["repository"].mapping
           /\ "nameWithOwner" \in DOMAIN r.val["repository"].val

\* an item of the output lacks the key `repository` or `nameWithOwner`, and
\* no item before it is of another shape than an object
KeyMissing ==
    /\ Search.stdout.valid /\ Search.stdout.list
    /\ \E i \in DOMAIN Search.stdout.items :
           /\ \A j \in 1..i :
                  /\ Search.stdout.items[j].mapping
                  /\ "repository" \in DOMAIN Search.stdout.items[j].val =>
                         Search.stdout.items[j].val["repository"].mapping
           /\ \/ "repository" \notin DOMAIN Search.stdout.items[i].val
              \/ "nameWithOwner" \notin DOMAIN Search.stdout.items[i].val["repository"].val

(* C21: the scan returns the distinct identifiers the search found, each
   once; it returns the empty list, and raises nothing, when the search
   command returns nonzero and when its output is not JSON or lacks the
   keys of an identifier. *)
C21_ScanResult ==
    /\ found # None => raised = None /\ pc = "scanned"
    /\ pc \in {"scanned", "raised"} =>
        /\ (Search.ran /\ Search.rc # 0) => found = Some(<<>>)
        /\ (Search.ran /\ Search.rc = 0 /\ (~Search.stdout.valid \/ KeyMissing)) =>
               found = Some(<<>>)
        /\ (Search.ran /\ Search.rc = 0 /\ AllNamed) =>
               /\ found # None
               /\ \A i, j \in DOMAIN found.val : found.val[i] = found.val[j] => i = j
               /\ {found.val[i] : i \in DOMAIN found.val} =
                      {Search.stdout.items[i].val["repository"].val["nameWithOwner"] :
                           i \in DOMAIN Search.stdout.items}

C21_Witness ==
    /\ pc = "scanned"
    /\ Search.rc = 0
    /\ Len(Search.stdout.items) = 3
    /\ found # None /\ Len(found.val) = 2

----------------------------------------------------------------------------
\* the steps of apply_update whose failure is to end the sequence
Steps == {"git checkout", "cruft update", "git commit", "git push"}

(* C22: when the branch creation, the update, the commit or the push returns
   nonzero, no later command is invoked for the binding, and its outcome has
   success false and an error. *)
C22_FailureShortCircuits ==
    \A c \in Steps :
        Failed(c) =>
            /\ cmds[Len(cmds)].cmd = c
            /\ Finished => ~Last.success /\ Last.error # None

\* the commands of check_for_updates and apply_update, in their order
Order ==
    <<"cruft check", "cruft diff", "git checkout", "cruft update", "git status", "git add",
      "git commit", "git push", "gh pr create">>

\* the calls made for the binding in hand once its workspace was acquired
PipelineCalls == SelectSeq(cmds, LAMBDA x : x.cmd # "git clone")

(* C23: the commands invoked for a binding are, in this order, drift-check,
   diff, branch creation, update, status, stage, commit, push and PR-create:
   the k-th call is the k-th command of this list, so a command is invoked
   only after all those before it, none is invoked twice, and none is a
   command that undoes an earlier one. *)
C23_LinearOrder ==
    /\ Len(PipelineCalls) <= Len(Order)
    /\ \A k \in DOMAIN PipelineCalls : PipelineCalls[k].cmd = Order[k]
    /\ \A k \in DOMAIN cmds :
           /\ cmds[k].cmd = "git checkout" => cmds[k].args[1] = "-b"
           /\ cmds[k].cmd = "git push" =>
                  cmds[k].args = <<"-u", "origin", TheCall("git checkout").args[2]>>
           /\ cmds[k].cmd = "git clone" => k = 1

C23_Witness ==
    /\ Finished
    /\ Len(PipelineCalls) = Len(Order)
    /\ Returned("gh pr create", 0)

\* the commands that would undo a step: none of them is a command of the code
Reverting == {"git reset", "git revert", "git branch -D", "git push --delete", "git checkout main"}

(* C24: when the update command returns nonzero, neither status, stage,
   commit, push nor PR-create is invoked for the binding, and its outcome
   has success false, an error, no pr_url and no new revision. *)
C24_UpdateFailure ==
    Failed("cruft update") =>
        /\ \A c \in {"git status", "git add", "git commit", "git push", "gh pr create"} :
               ~Invoked(c)
        /\ Finished
        /\ ~Last.success
        /\ Last.error # None
        /\ Last.pr_url = None
        /\ Last.new_commit = None

C24_Witness == Finished /\ Failed("cruft update") /\ Last.needs_update

(* C25: when the push returns nonzero, PR-create is not invoked, the outcome
   has success false, an error and no pr_url, and no command that reverts
   the local branch or the commit is invoked. *)
C25_PushFailure ==
    Failed("git push") =>
        /\ ~Invoked("gh pr create")
        /\ cmds[Len(cmds)].cmd = "git push"
        /\ \A c \in Reverting : ~Invoked(c)
        /\ Finished
        /\ ~Last.success
        /\ Last.error # None
        /\ Last.pr_url = None

C25_Witness == Finished /\ Failed("git push") /\ Returned("git commit", 0)

(* C26: when PR-create returns nonzero after a commit and a push that
   returned zero, the outcome keeps success true and needs_update true, has
   the error of the failed PR creation and no pr_url, and nothing is invoked
   after PR-create: the pushed branch stays. *)
C26_PrFailureNonFatal ==
    (Failed("gh pr create") /\ Returned("git commit", 0) /\ Returned("git push", 0)) =>
        /\ Finished
        /\ Last.success
        /\ Last.needs_update
        /\ Last.error = Some(<<"Failed to create PR: ", Stderr>>)
        /\ Last.pr_url = None
        /\ cmds[Len(cmds)].cmd = "gh pr create"
        /\ \A c \in Reverting : ~Invoked(c)

C26_Witness ==
    Finished /\ Failed("gh pr create") /\ Returned("git commit", 0) /\ Returned("git push", 0)

\* the workspace in hand has no Template Binding State: no .cruft.json, or
\* one that holds an empty mapping
BindingStateAbsent == reads # <<>> /\ (~reads[1].exists \/ DOMAIN reads[1].doc = {})

\* control is in check_for_updates, or has just left it
InCheck == pc \in {"get_cruft_info", "cruft_check", "cruft_diff"}

AfterCheck == pc = "git_checkout" \/ (Finished /\ reads # <<>> /\ ~Invoked("git checkout"))

(* C27: check_for_updates invokes no command when the workspace has no
   Template Binding State; otherwise it invokes the drift check and then,
   only when the drift check returned nonzero, the diff; it invokes no
   command that changes the workspace. *)
C27_DriftDetectorCommands ==
    /\ BindingStateAbsent => PipelineCalls = <<>> /\ ~InCheck
    /\ (InCheck \/ AfterCheck) =>
           /\ Len(PipelineCalls) <= 2
           /\ \A k \in DOMAIN PipelineCalls :
                  /\ PipelineCalls[k].cmd \notin Mutating
                  /\ PipelineCalls[k].cmd = (IF k = 1 THEN "cruft check" ELSE "cruft diff")
           /\ Invoked("cruft diff") => Failed("cruft check")
    /\ (AfterCheck /\ ~BindingStateAbsent) =>
           /\ Invoked("cruft check")
           /\ Failed("cruft check") => Invoked("cruft diff")

C27_Witness ==
    /\ pc = "git_checkout"
    /\ Len(PipelineCalls) = 2
    /\ PipelineCalls[2].cmd = "cruft diff"

(* C28: the stage and commit commands are invoked only in a workspace where
   the creation of the update branch succeeded, so that every commit is made
   on that branch. *)
C28_CommitOnUpdateBranch ==
    (Invoked("git add") \/ Invoked("git commit")) => Returned("git checkout", 0)

(* C29: an outcome has success true together with an error only when
   PR-create failed after a push that returned zero; every other outcome has
   success true exactly when it has no error. *)
C29_SuccessWithErrorOnlyPrFailure ==
    Finished =>
        /\ (Last.success /\ Last.error # None) =>
               Failed("gh pr create") /\ Returned("git push", 0)
        /\ ~(Failed("gh pr create") /\ Returned("git push", 0)) =>
               (Last.success <=> Last.error = None)

C29_Witness ==
    /\ Finished
    /\ Last.success /\ Last.error # None
    /\ Len(results) = 2
    /\ ~results[1].success

(* C30: in every outcome, the new revision is non-null only if the update
   command was invoked and returned zero, and the prior revision is non-null
   exactly when the workspace had a Template Binding State; every outcome of
   a dry run and every outcome skipped by policy has no new revision and no
   pr_url. *)
C30_RevisionsRecorded ==
    Finished =>
        /\ Last.new_commit # None => Returned("cruft update", 0)
        /\ Last.old_commit # None <=> (reads # <<>> /\ ~BindingStateAbsent)
        /\ (dry_run \/ (Last.needs_update /\ ~LastRepo.auto_update)) =>
               Last.new_commit = None /\ Last.pr_url = None

C30_Witness ==
    /\ Finished
    /\ ~dry_run
    /\ Last.needs_update /\ ~LastRepo.auto_update
    /\ Last.old_commit # None
    /\ Len(results) = 2
    /\ results[1].new_commit # None

====
